---------------------------- MODULE Spec2Model ----------------------------
(***************************************************************************)
(* A model of sdf_viewer (src/main.cpp): the command line parser, the     *)
(* validation of the SDF name, the generation of the lattice of sample     *)
(* points, the call of sdf::evaluate and the hand-over to the viewer.      *)
(*                                                                         *)
(* Strings are sequences of one-character strings, so that arg[0], atoi    *)
(* and atof are computed character by character.  uint32_t values are      *)
(* pairs <<hi, lo>> of 16-bit limbs, so that arithmetic wraps at 2^32.     *)
(* float values are "inf", "nan" or a fraction [num, den]; within the      *)
(* resolutions explored here the end points of the lattice are exact in    *)
(* binary32, rounding of interior coordinates is not represented.          *)
(***************************************************************************)
EXTENDS Integers, Sequences, FiniteSets, TLC

VARIABLES argv, i, sdfName, resolution, time, seed, pc, exitCode, out,
          argvReads, optsParsed, divisor, step, points, evalCalls, evalArgs,
          sdfValues, viewer

vars == <<argv, i, sdfName, resolution, time, seed, pc, exitCode, out,
          argvReads, optsParsed, divisor, step, points, evalCalls, evalArgs,
          sdfValues, viewer>>

-----------------------------------------------------------------------------
(* Bounds of the exploration *)

\* longest command line explored, argv[0] not counted
MaxArgs == 3

-----------------------------------------------------------------------------
(* Program constants *)

DefaultResolution == 32
DefaultSeed == 12345
\* uint32_t is kept as two 16-bit limbs; binary32 has a 24-bit significand
LimbBase == 2^16
FloatExactLimit == 2^24

-----------------------------------------------------------------------------
(* Strings of the program *)

ProgName == <<"s","d","f">>
LongHelp == <<"-","-","h","e","l","p">>
ShortHelp == <<"-","h">>
LongList == <<"-","-","l","i","s","t">>
ShortList == <<"-","l">>
LongResolution == <<"-","-","r","e","s","o","l","u","t","i","o","n">>
ShortResolution == <<"-","r">>
LongTime == <<"-","-","t","i","m","e">>
ShortTime == <<"-","t">>
LongSeed == <<"-","-","s","e","e","d">>
ShortSeed == <<"-","s">>

Sphere == <<"S","p","h","e","r","e">>
Mandelbulb == <<"M","a","n","d","e","l","b","u","l","b">>
Fish == <<"F","i","s","h">>

\* sdf::getAvailableSDFs(): the catalog of names, in a fixed order
getAvailableSDFs == <<Sphere, Mandelbulb, Fish>>

\* the words a command line is drawn from
Tokens ==
  { LongHelp, ShortHelp, LongList, ShortList, LongResolution, ShortResolution,
    LongTime, ShortTime, LongSeed, ShortSeed,
    Sphere, <<"B","o","g","u","s">>, <<"-","x">>, <<>>,
    <<"0">>, <<"1">>, <<"3">>, <<"1",".","5">> }

\* the argument lists of n words
ArgLists(n) == [1..n -> Tokens]

-----------------------------------------------------------------------------
(* uint32_t *)

\* static_cast<uint32_t>(n) of an int n
ToUInt32(n) ==
  IF n >= 0
    THEN <<n \div LimbBase, n % LimbBase>>
    ELSE <<(LimbBase - 1) - ((-n - 1) \div LimbBase),
           (LimbBase - 1) - ((-n - 1) % LimbBase)>>

\* a - b in uint32_t
U32Sub(a, b) ==
  LET borrow == IF a[2] < b[2] THEN 1 ELSE 0
  IN  <<(a[1] - b[1] - borrow) % LimbBase, (a[2] - b[2]) % LimbBase>>

\* the number a small uint32_t stands for (hi < 2^15)
U32Val(a) == a[1] * LimbBase + a[2]

-----------------------------------------------------------------------------
(* atoi, atof *)

Digits == {"0","1","2","3","4","5","6","7","8","9"}

DigitVal(c) ==
  CASE c = "0" -> 0 [] c = "1" -> 1 [] c = "2" -> 2 [] c = "3" -> 3
    [] c = "4" -> 4 [] c = "5" -> 5 [] c = "6" -> 6 [] c = "7" -> 7
    [] c = "8" -> 8 [] c = "9" -> 9

\* the longest prefix of s made of digits
RECURSIVE DigitPrefix(_)
DigitPrefix(s) ==
  IF s = <<>> \/ Head(s) \notin Digits
    THEN <<>>
    ELSE <<Head(s)>> \o DigitPrefix(Tail(s))

RECURSIVE DigitsValue(_, _)
DigitsValue(s, acc) ==
  IF s = <<>> THEN acc ELSE DigitsValue(Tail(s), acc * 10 + DigitVal(Head(s)))

RECURSIVE Pow10(_)
Pow10(n) == IF n = 0 THEN 1 ELSE 10 * Pow10(n - 1)

RECURSIVE GCD(_, _)
GCD(a, b) == IF b = 0 THEN a ELSE GCD(b, a % b)

\* the sign an optional leading + or - gives, and the rest of the string
SignOf(s) == IF s # <<>> /\ Head(s) = "-" THEN -1 ELSE 1
Unsigned(s) == IF s # <<>> /\ Head(s) \in {"-", "+"} THEN Tail(s) ELSE s

\* std::atoi: optional sign, then digits up to the first other character;
\* 0 when there is no digit
Atoi(s) == SignOf(s) * DigitsValue(DigitPrefix(Unsigned(s)), 0)

-----------------------------------------------------------------------------
(* float *)

\* static_cast<float>(u) of a uint32_t u: exact below 2^24, else rounded to
\* 24 significant bits, ties to even; the result is the integer it stands
\* for, as limbs (hi may reach 2^16 when the value rounds up to 2^32)
RECURSIVE DroppedBits(_)
DroppedBits(hi) ==
  IF hi < FloatExactLimit \div LimbBase THEN 0 ELSE 1 + DroppedBits(hi \div 2)

U32ToFloat(u) ==
  LET q == 2 ^ DroppedBits(u[1])
      r == u[2] % q
      keep == u[2] - r
      up == 2 * r > q \/ (2 * r = q /\ (u[2] \div q) % 2 = 1)
      lo == IF up THEN keep + q ELSE keep
  IN  IF lo = LimbBase THEN <<u[1] + 1, 0>> ELSE <<u[1], lo>>

Inf == [cls |-> "inf"]
NaN == [cls |-> "nan"]

\* a float that is a fraction, in lowest terms
Frac(n, d) ==
  LET g == GCD(IF n < 0 THEN -n ELSE n, d)
  IN  IF n = 0
        THEN [cls |-> "fin", num |-> 0, den |-> 1]
        ELSE [cls |-> "fin", num |-> n \div g, den |-> d \div g]

\* std::atof: optional sign, digits, optionally a point and more digits
Atof(s) ==
  LET u == Unsigned(s)
      ip == DigitPrefix(u)
      rest == SubSeq(u, Len(ip) + 1, Len(u))
      fp == IF rest # <<>> /\ Head(rest) = "." THEN DigitPrefix(Tail(rest)) ELSE <<>>
  IN  Frac(SignOf(s) * DigitsValue(ip \o fp, 0), Pow10(Len(fp)))

minBound == Frac(-1, 1)
maxBound == Frac(1, 1)

\* (maxBound - minBound) / static_cast<float>(resolution - 1), line 115:
\* the quotient is kept as numerator and divisor; a zero divisor gives +inf
StepOf(d) ==
  IF d = <<0, 0>>
    THEN Inf
    ELSE [cls |-> "fin", num |-> maxBound.num - minBound.num, den |-> U32ToFloat(d)]

\* minBound + k * step, lines 120-122; 0 * inf is NaN
Coord(k, st) ==
  IF st.cls = "inf"
    THEN (IF k = 0 THEN NaN ELSE Inf)
    ELSE Frac(minBound.num * U32Val(st.den) + k * st.num, U32Val(st.den))

-----------------------------------------------------------------------------
(* The lattice of sample points, lines 117-126 *)

\* the coordinate of each index along one axis (px, py and pz are the same
\* expression of x, y and z): element k + 1 is the coordinate of index k
AxisCoords(n, st) == <<>> \o [k \in 1..n |-> Coord(k - 1, st)]

\* a loop that stops one node early: x < resolution - 1
XLoopShort(n, y, z, c) == [k \in 1..(n - 1) |-> <<c[k], c[y + 1], c[z + 1]>>]

\* emplace_back(py, px, pz)
XLoopSwapped(n, y, z, c) == [k \in 1..n |-> <<c[y + 1], c[k], c[z + 1]>>]

\* the innermost loop: x = 0 .. n-1 at fixed y and z, one emplace_back each
XLoop(n, y, z, c) == [k \in 1..n |-> <<c[k], c[y + 1], c[z + 1]>>]

RECURSIVE YLoop(_, _, _, _)
YLoop(n, y, z, c) ==
  IF y >= n THEN <<>> ELSE XLoop(n, y, z, c) \o YLoop(n, y + 1, z, c)

RECURSIVE ZLoop(_, _, _)
ZLoop(n, z, c) ==
  IF z >= n THEN <<>> ELSE YLoop(n, 0, z, c) \o ZLoop(n, z + 1, c)

GridPoints(n, st) == ZLoop(n, 0, AxisCoords(n, st))

\* A vector of points is held in the state by what the loops ran with, the
\* resolution and the step; PointsOf gives its elements in order.  (Held
\* element by element, the 32^3 points of the default resolution would be
\* repeated in every state after line 126.)
NoPoints == [n |-> 0, step |-> Frac(0, 1)]
PointsOf(v) == GridPoints(v.n, v.step)

-----------------------------------------------------------------------------
(* sdf::evaluate *)

\* the distance of the named field at p: a value that only p, the name, the
\* time and the seed determine
FieldValue(name, p, t, s) == [field |-> name, at |-> p, time |-> t, seed |-> s]

\* one value per point, position-aligned
Evaluate(name, pts, t, s) ==
  [k \in 1..Len(pts) |-> FieldValue(name, pts[k], t, s)]

\* A vector of distances is held in the state as the call that returned it;
\* ValuesOf gives its elements in order.
NoValues == [returned |-> FALSE]
ValuesOf(v) ==
  IF v.returned THEN Evaluate(v.name, PointsOf(v.points), v.time, v.seed) ELSE <<>>

IsAvailable(name) ==
  \E k \in 1..Len(getAvailableSDFs) : getAvailableSDFs[k] = name

-----------------------------------------------------------------------------
(* Output *)

\* one line written to std::cout or std::cerr: which message, and the string
\* the message quotes
Line(stream, text, arg) == [stream |-> stream, text |-> text, arg |-> arg]

\* printUsage, lines 23-37
printUsage == <<Line("cout", "usage", argv[1])>>

\* listSDFs, lines 39-44: a header, then one line for each available name
listSDFs ==
  <<Line("cout", "Available SDFs:", <<>>)>>
    \o [k \in 1..Len(getAvailableSDFs) |-> Line("cout", "name", getAvailableSDFs[k])]

-----------------------------------------------------------------------------
(* The state after the declarations of main, lines 46-53 *)

NoGrid == [registered |-> FALSE]

Init ==
  /\ \E n \in 0..MaxArgs : \E a \in ArgLists(n) : argv = <<ProgName>> \o a
  /\ i = 1
  /\ sdfName = <<>>
  /\ resolution = ToUInt32(DefaultResolution)
  /\ time = Frac(0, 1)
  /\ seed = ToUInt32(DefaultSeed)
  /\ pc = "parse"
  /\ exitCode = -1
  /\ out = <<>>
  /\ argvReads = {}
  /\ optsParsed = {}
  /\ divisor = <<0, 0>>
  /\ step = Frac(0, 1)
  /\ points = NoPoints
  /\ evalCalls = 0
  /\ evalArgs = <<>>
  /\ sdfValues = NoValues
  /\ viewer = [init |-> FALSE, groundPlaneMode |-> "default", grid |-> NoGrid,
               slicePlane |-> FALSE, shown |-> FALSE]

argc == Len(argv)

\* argv[k], k counted from 0 as in the program
Arg(k) == argv[k + 1]

\* arg[0] of a std::string: the terminating null character when arg is empty
FirstChar(a) == IF a = <<>> THEN "NUL" ELSE Head(a)

-----------------------------------------------------------------------------
(* The argument loop, lines 53-81: one action for each branch of an iteration *)

InLoop == pc = "parse" /\ i < argc

IsHelp(a) == a = LongHelp \/ a = ShortHelp
IsList(a) == a = LongList \/ a = ShortList
IsResolution(a) == (a = LongResolution \/ a = ShortResolution) /\ i + 1 < argc
IsTime(a) == (a = LongTime \/ a = ShortTime) /\ i + 1 < argc
IsSeed(a) == (a = LongSeed \/ a = ShortSeed) /\ i + 1 < argc
IsName(a) == FirstChar(a) # "-" /\ sdfName = <<>>

AfterParse == <<divisor, step, points, evalCalls, evalArgs, sdfValues, viewer>>

ParseHelp ==
  /\ InLoop
  /\ IsHelp(Arg(i))
  /\ argvReads' = argvReads \cup {i}
  /\ out' = out \o printUsage
  /\ exitCode' = 0
  /\ pc' = "done"
  /\ UNCHANGED <<argv, i, sdfName, resolution, time, seed, optsParsed, AfterParse>>

\* the listing without its return
ParseListContinues ==
  /\ InLoop
  /\ ~IsHelp(Arg(i))
  /\ IsList(Arg(i))
  /\ argvReads' = argvReads \cup {i}
  /\ out' = out \o listSDFs
  /\ i' = i + 1
  /\ UNCHANGED <<argv, sdfName, resolution, time, seed, pc, exitCode, optsParsed,
                 AfterParse>>

ParseList ==
  /\ InLoop
  /\ ~IsHelp(Arg(i))
  /\ IsList(Arg(i))
  /\ argvReads' = argvReads \cup {i}
  /\ out' = out \o listSDFs
  /\ exitCode' = 0
  /\ pc' = "done"
  /\ UNCHANGED <<argv, i, sdfName, resolution, time, seed, optsParsed, AfterParse>>

\* the branch without its test i + 1 < argc
ParseResolutionUnchecked ==
  /\ InLoop
  /\ ~IsHelp(Arg(i)) /\ ~IsList(Arg(i))
  /\ Arg(i) = LongResolution \/ Arg(i) = ShortResolution
  /\ resolution' = IF i + 1 < argc THEN ToUInt32(Atoi(Arg(i + 1))) ELSE ToUInt32(0)
  /\ argvReads' = argvReads \cup {i, i + 1}
  /\ optsParsed' = optsParsed \cup {"resolution"}
  /\ i' = i + 2
  /\ UNCHANGED <<argv, sdfName, time, seed, pc, exitCode, out, AfterParse>>

ParseResolution ==
  /\ InLoop
  /\ ~IsHelp(Arg(i)) /\ ~IsList(Arg(i))
  /\ IsResolution(Arg(i))
  /\ resolution' = ToUInt32(Atoi(Arg(i + 1)))
  /\ argvReads' = argvReads \cup {i, i + 1}
  /\ optsParsed' = optsParsed \cup {"resolution"}
  /\ i' = i + 2
  /\ UNCHANGED <<argv, sdfName, time, seed, pc, exitCode, out, AfterParse>>

\* the branch assigning the seed as well
ParseTimeClobbersSeed ==
  /\ InLoop
  /\ ~IsHelp(Arg(i)) /\ ~IsList(Arg(i)) /\ ~IsResolution(Arg(i))
  /\ IsTime(Arg(i))
  /\ time' = Atof(Arg(i + 1))
  /\ seed' = ToUInt32(Atoi(Arg(i + 1)))
  /\ argvReads' = argvReads \cup {i, i + 1}
  /\ optsParsed' = optsParsed \cup {"time"}
  /\ i' = i + 2
  /\ UNCHANGED <<argv, sdfName, resolution, pc, exitCode, out, AfterParse>>

ParseTime ==
  /\ InLoop
  /\ ~IsHelp(Arg(i)) /\ ~IsList(Arg(i)) /\ ~IsResolution(Arg(i))
  /\ IsTime(Arg(i))
  /\ time' = Atof(Arg(i + 1))
  /\ argvReads' = argvReads \cup {i, i + 1}
  /\ optsParsed' = optsParsed \cup {"time"}
  /\ i' = i + 2
  /\ UNCHANGED <<argv, sdfName, resolution, seed, pc, exitCode, out, AfterParse>>

ParseSeed ==
  /\ InLoop
  /\ ~IsHelp(Arg(i)) /\ ~IsList(Arg(i)) /\ ~IsResolution(Arg(i)) /\ ~IsTime(Arg(i))
  /\ IsSeed(Arg(i))
  /\ seed' = ToUInt32(Atoi(Arg(i + 1)))
  /\ argvReads' = argvReads \cup {i, i + 1}
  /\ optsParsed' = optsParsed \cup {"seed"}
  /\ i' = i + 2
  /\ UNCHANGED <<argv, sdfName, resolution, time, pc, exitCode, out, AfterParse>>

IsOption(a) == IsHelp(a) \/ IsList(a) \/ IsResolution(a) \/ IsTime(a) \/ IsSeed(a)

ParseName ==
  /\ InLoop
  /\ ~IsOption(Arg(i))
  /\ IsName(Arg(i))
  /\ sdfName' = Arg(i)
  /\ argvReads' = argvReads \cup {i}
  /\ i' = i + 1
  /\ UNCHANGED <<argv, resolution, time, seed, pc, exitCode, out, optsParsed, AfterParse>>

ParseUnknown ==
  /\ InLoop
  /\ ~IsOption(Arg(i))
  /\ ~IsName(Arg(i))
  /\ argvReads' = argvReads \cup {i}
  /\ out' = out \o <<Line("cerr", "Unknown argument: ", Arg(i))>> \o printUsage
  /\ exitCode' = 1
  /\ pc' = "done"
  /\ UNCHANGED <<argv, i, sdfName, resolution, time, seed, optsParsed, AfterParse>>

-----------------------------------------------------------------------------
(* After the loop, lines 83-126 *)

LoopDone == pc = "parse" /\ ~(i < argc)

\* lines 83-87
NoName ==
  /\ LoopDone
  /\ sdfName = <<>>
  /\ out' = out \o <<Line("cerr", "Error: No SDF name specified.", <<>>)>> \o printUsage
  /\ exitCode' = 1
  /\ pc' = "done"
  /\ UNCHANGED <<argv, i, sdfName, resolution, time, seed, argvReads, optsParsed,
                 AfterParse>>

\* lines 89-103
UnknownSDF ==
  /\ LoopDone
  /\ sdfName # <<>>
  /\ ~IsAvailable(sdfName)
  /\ out' = out \o <<Line("cerr", "Error: Unknown SDF", sdfName),
                     Line("cerr", "Use --list to see available SDFs.", <<>>)>>
  /\ exitCode' = 1
  /\ pc' = "done"
  /\ UNCHANGED <<argv, i, sdfName, resolution, time, seed, argvReads, optsParsed,
                 AfterParse>>

\* lines 89-126: when the name is valid, the points are generated by loops
\* that run n times on each axis
GenerateGridWith(valid, n) ==
  /\ LoopDone
  /\ sdfName # <<>>
  /\ valid
  /\ out' = out \o <<Line("cout", "Evaluating SDF", sdfName)>>
  /\ divisor' = U32Sub(resolution, ToUInt32(1))
  /\ step' = StepOf(divisor')
  /\ points' = [n |-> n, step |-> step']
  /\ pc' = "evaluate"
  /\ UNCHANGED <<argv, i, sdfName, resolution, time, seed, exitCode, argvReads,
                 optsParsed, evalCalls, evalArgs, sdfValues, viewer>>

\* the generation without the validation of the name
GenerateGridUnchecked == GenerateGridWith(TRUE, U32Val(resolution))

\* the generation with the resolution clamped to at least one node
GenerateGridClamped ==
  GenerateGridWith(IsAvailable(sdfName),
                   IF U32Val(resolution) = 0 THEN 1 ELSE U32Val(resolution))

GenerateGrid == GenerateGridWith(IsAvailable(sdfName), U32Val(resolution))

-----------------------------------------------------------------------------
(* sdf::evaluate inside the try block, lines 128-137 *)

\* when the call can fail: the name is not in the catalog, or the failure
\* arises while a non-empty batch is computed; an empty batch is no error
EvaluateCanFail(name, pts) == ~IsAvailable(name) \/ pts.n > 0

EvaluateReturns ==
  /\ pc = "evaluate"
  /\ IsAvailable(sdfName)
  /\ evalCalls' = evalCalls + 1
  /\ evalArgs' = <<[name |-> sdfName, points |-> points, time |-> time, seed |-> seed]>>
  /\ sdfValues' = [returned |-> TRUE, name |-> sdfName, points |-> points,
                   time |-> time, seed |-> seed]
  /\ out' = out \o <<Line("cout", "SDF evaluation complete. Launching Polyscope...", <<>>)>>
  /\ pc' = "init"
  /\ UNCHANGED <<argv, i, sdfName, resolution, time, seed, exitCode, argvReads,
                 optsParsed, divisor, step, points, viewer>>

\* a catch block that prints and goes on
EvaluateThrowsSwallowed ==
  /\ pc = "evaluate"
  /\ EvaluateCanFail(sdfName, points)
  /\ evalCalls' = evalCalls + 1
  /\ evalArgs' = <<[name |-> sdfName, points |-> points, time |-> time, seed |-> seed]>>
  /\ out' = out \o <<Line("cerr", "Error evaluating SDF: ", <<>>)>>
  /\ pc' = "init"
  /\ UNCHANGED <<argv, i, sdfName, resolution, time, seed, exitCode, argvReads,
                 optsParsed, divisor, step, points, sdfValues, viewer>>

\* the call throws; the catch block prints and returns 1
EvaluateThrows ==
  /\ pc = "evaluate"
  /\ EvaluateCanFail(sdfName, points)
  /\ evalCalls' = evalCalls + 1
  /\ evalArgs' = <<[name |-> sdfName, points |-> points, time |-> time, seed |-> seed]>>
  /\ out' = out \o <<Line("cerr", "Error evaluating SDF: ", <<>>)>>
  /\ exitCode' = 1
  /\ pc' = "done"
  /\ UNCHANGED <<argv, i, sdfName, resolution, time, seed, argvReads, optsParsed,
                 divisor, step, points, sdfValues, viewer>>

-----------------------------------------------------------------------------
(* The viewer, lines 139-173 *)

BeforeViewer == <<argv, i, sdfName, resolution, time, seed, argvReads, optsParsed,
                  divisor, step, points, evalCalls, evalArgs, sdfValues, out>>

\* lines 140-143
InitViewer ==
  /\ pc = "init"
  /\ viewer' = [viewer EXCEPT !.init = TRUE, !.groundPlaneMode = "ShadowOnly"]
  /\ pc' = "register"
  /\ UNCHANGED <<BeforeViewer, exitCode>>

\* lines 145-168: the grid is registered and the vector `values` attached
RegisterGridWith(values) ==
  /\ pc = "register"
  /\ viewer' = [viewer EXCEPT
       !.grid = [registered |-> TRUE,
                 name |-> sdfName,
                 gridDim |-> <<resolution, resolution, resolution>>,
                 boundLow |-> <<minBound, minBound, minBound>>,
                 boundHigh |-> <<maxBound, maxBound, maxBound>>,
                 distance |-> values,
                 isosurfaceLevel |-> Frac(0, 1)],
       !.slicePlane = TRUE]
  /\ pc' = "show"
  /\ UNCHANGED <<BeforeViewer, exitCode>>

\* a fresh, empty vector attached in place of sdfValues
RegisterGridEmptyValues == RegisterGridWith(NoValues)

RegisterGrid == RegisterGridWith(sdfValues)

\* lines 170-173
Show ==
  /\ pc = "show"
  /\ viewer' = [viewer EXCEPT !.shown = TRUE]
  /\ exitCode' = 0
  /\ pc' = "done"
  /\ UNCHANGED BeforeViewer

-----------------------------------------------------------------------------

Next ==
  \/ ParseHelp \/ ParseList \/ ParseResolution \/ ParseTime \/ ParseSeed
  \/ ParseName \/ ParseUnknown
  \/ NoName \/ UnknownSDF \/ GenerateGrid
  \/ EvaluateReturns \/ EvaluateThrows
  \/ InitViewer \/ RegisterGrid \/ Show

Spec == Init /\ [][Next]_vars

\* main is one sequential thread: while a statement remains, it is executed
FairSpec == Spec /\ WF_vars(Next)

-----------------------------------------------------------------------------
(* Common definitions of the properties *)

HasLine(text) == \E k \in 1..Len(out) : out[k].text = text
EvalFailed == HasLine("Error evaluating SDF: ")
Cube(n) == n * n * n
ValueOptions ==
  {LongResolution, ShortResolution, LongTime, ShortTime, LongSeed, ShortSeed}

NameRequested == sdfName # <<>>
ViewerUntouched ==
  /\ ~viewer.init /\ ~viewer.grid.registered /\ ~viewer.slicePlane /\ ~viewer.shown

-----------------------------------------------------------------------------
(* C1 *)

\* C1, as stated: when the requested name is not in getAvailableSDFs(), the run
\* ends with a nonzero exit status, evaluate is never called and no distance
\* values reach the viewer.
C1_AsStated ==
  (NameRequested /\ ~IsAvailable(sdfName))
    => /\ evalCalls = 0 /\ sdfValues = NoValues /\ ViewerUntouched
       /\ pc = "done" => exitCode # 0

\* C1, amended: when the requested name is not in getAvailableSDFs(), evaluate
\* is never called, no distance values exist and the viewer is untouched; the
\* run ends with exit status 1, unless the loop stopped at a --help/-h or
\* --list/-l argument after the name, where it ends with status 0 having
\* printed the usage or the listing.
C1_UnknownNameFails ==
  (NameRequested /\ ~IsAvailable(sdfName))
    => /\ evalCalls = 0 /\ sdfValues = NoValues /\ ViewerUntouched
       /\ pc = "done" =>
            \/ exitCode = 1
            \/ /\ exitCode = 0
               /\ i < argc
               /\ IsHelp(Arg(i)) \/ IsList(Arg(i))
               /\ HasLine("usage") \/ HasLine("Available SDFs:")

C1_Witness ==
  /\ pc = "done"
  /\ NameRequested /\ ~IsAvailable(sdfName)
  /\ ~(i < argc)
  /\ exitCode = 1
  /\ HasLine("Error: Unknown SDF")

-----------------------------------------------------------------------------
(* C2 *)

\* C2: the sequence of points handed to sdf::evaluate has exactly R*R*R
\* elements, R the resolution; the grid is registered with dimensions
\* (R, R, R), and the distance vector attached to it has one value for each
\* of its R*R*R nodes.
C2_OneValuePerNode ==
  /\ (evalCalls >= 1 /\ (pc = "init" \/ EvalFailed))
       => Len(PointsOf(evalArgs[1].points)) = Cube(U32Val(resolution))
  /\ (viewer.grid.registered /\ pc = "show")
       => /\ viewer.grid.gridDim = <<resolution, resolution, resolution>>
          /\ Len(ValuesOf(viewer.grid.distance))
               = U32Val(viewer.grid.gridDim[1]) * U32Val(viewer.grid.gridDim[2])
                   * U32Val(viewer.grid.gridDim[3])

C2_Witness ==
  /\ pc = "show"
  /\ viewer.grid.registered
  /\ resolution = ToUInt32(3)
  /\ Len(ValuesOf(viewer.grid.distance)) = 27

-----------------------------------------------------------------------------
(* C3 *)

Generated == pc \in {"evaluate", "init", "register", "show"} \/ evalCalls >= 1

\* C3: with resolution 0 the generated sequence of points is empty, evaluate
\* is still called, once and with that empty sequence, it returns an empty
\* result, and the run takes no error exit.
C3_EmptyBatch ==
  (resolution = ToUInt32(0) /\ Generated)
    => /\ points.n = 0
       /\ PointsOf(points) = <<>>
       /\ pc # "evaluate"
            => /\ evalCalls = 1
               /\ PointsOf(evalArgs[1].points) = <<>>
               /\ sdfValues.returned
               /\ ValuesOf(sdfValues) = <<>>
               /\ ~EvalFailed
               /\ exitCode # 1
       /\ pc = "done" => exitCode = 0

C3_Witness ==
  /\ resolution = ToUInt32(0)
  /\ pc = "done"
  /\ evalCalls = 1
  /\ PointsOf(evalArgs[1].points) = <<>>
  /\ viewer.shown
  /\ exitCode = 0

-----------------------------------------------------------------------------
(* C4 *)

\* C4: in a run where sdf::evaluate fails, evaluate has been called exactly
\* once, the program has ended with exit status 1 right away, no distance
\* values exist and the viewer has been neither initialized nor shown.
C4_FailureNotRetried ==
  EvalFailed
    => /\ evalCalls = 1
       /\ pc = "done"
       /\ exitCode = 1
       /\ sdfValues = NoValues
       /\ ViewerUntouched

C4_Witness ==
  /\ EvalFailed
  /\ evalCalls = 1
  /\ pc = "done"
  /\ exitCode = 1

-----------------------------------------------------------------------------
(* C5 *)

ListFlagPresent == \E k \in 1..(argc - 1) : Arg(k) = LongList \/ Arg(k) = ShortList

\* C5, as stated: when --list or -l is anywhere on the command line, the run
\* prints the listing and ends with status 0, without a call of evaluate and
\* without the viewer.
C5_AsStated ==
  ListFlagPresent
    => /\ evalCalls = 0
       /\ ViewerUntouched
       /\ pc = "done" => (exitCode = 0 /\ HasLine("Available SDFs:"))

\* C5, amended: when the argument loop reaches an argument --list or -l (no
\* earlier argument ended the run, and the flag was not taken as the value of
\* a preceding --resolution, --time or --seed), the program prints the header
\* and every available name, and ends with status 0 in that step, evaluate
\* not called and the viewer untouched.
C5_ListWhenReached ==
  [][ (InLoop /\ IsList(Arg(i)))
        => /\ out' = out \o listSDFs
           /\ pc' = "done"
           /\ exitCode' = 0
           /\ evalCalls' = 0
           /\ ViewerUntouched' ]_vars

C5_Witness ==
  /\ pc = "done"
  /\ exitCode = 0
  /\ sdfName = Sphere
  /\ i < argc /\ IsList(Arg(i))
  /\ Len(out) = 1 + Len(getAvailableSDFs)
  /\ out[1].text = "Available SDFs:"
  /\ \A k \in 1..Len(getAvailableSDFs) : out[k + 1].arg = getAvailableSDFs[k]

-----------------------------------------------------------------------------
(* C6 *)

\* the loop is at an option that has a value after it
ReachesResolutionBranch == InLoop /\ IsResolution(Arg(i))
ReachesTimeBranch == InLoop /\ IsTime(Arg(i))
ReachesSeedBranch == InLoop /\ IsSeed(Arg(i))

C6_Defaults ==
  evalCalls >= 1
    => /\ "time" \notin optsParsed => evalArgs[1].time = Frac(0, 1)
       /\ "seed" \notin optsParsed => evalArgs[1].seed = ToUInt32(DefaultSeed)
       /\ "resolution" \notin optsParsed
            => /\ resolution = ToUInt32(DefaultResolution)
               /\ evalArgs[1].points.n = DefaultResolution
               /\ viewer.grid.registered
                    => viewer.grid.gridDim[1] = ToUInt32(DefaultResolution)

C6_Frame ==
  /\ ReachesResolutionBranch
       => /\ resolution' = ToUInt32(Atoi(Arg(i + 1)))
          /\ time' = time /\ seed' = seed
  /\ ReachesTimeBranch
       => /\ time' = Atof(Arg(i + 1))
          /\ resolution' = resolution /\ seed' = seed
  /\ ReachesSeedBranch
       => /\ seed' = ToUInt32(Atoi(Arg(i + 1)))
          /\ resolution' = resolution /\ time' = time
  /\ ~InLoop => (resolution' = resolution /\ time' = time /\ seed' = seed)

\* C6: when evaluate is called it receives time 0.0 unless a --time/-t option
\* was parsed and seed 12345 unless a --seed/-s option was parsed, and the
\* grid has resolution 32 unless a --resolution/-r option was parsed; a
\* parsed option assigns its own parameter and leaves the other two as they
\* were, and nothing after the loop assigns any of the three.
C6_DefaultsKept == []C6_Defaults /\ [][C6_Frame]_vars

C6_Witness ==
  /\ evalCalls = 1
  /\ optsParsed = {"time"}
  /\ evalArgs[1].time = Frac(3, 2)
  /\ evalArgs[1].seed = ToUInt32(DefaultSeed)
  /\ evalArgs[1].points.n = DefaultResolution

-----------------------------------------------------------------------------
(* C7 *)

\* the point at 0-based position k of a sequence
At(pts, k) == pts[k + 1]

\* c[k + 1] is min + k*step
LatticeOrderAt(pts, n, c) ==
  /\ Len(pts) = Cube(n)
  /\ \A z \in 0..(n - 1) : \A y \in 0..(n - 1) : \A x \in 0..(n - 1) :
       At(pts, x + n * y + n * n * z) = <<c[x + 1], c[y + 1], c[z + 1]>>
  /\ c[1].cls = "fin" => \A a, b \in 1..n : a # b => c[a] # c[b]

LatticeOrder(pts, n, st) ==
  IF n = 0
    THEN pts = <<>>
    ELSE LatticeOrderAt(pts, n, <<>> \o [k \in 1..n |-> Coord(k - 1, st)])

\* C7: the sequence handed to evaluate has R*R*R points, and for all indices
\* 0 <= x, y, z < R the point at position x + R*y + R*R*z is the node
\* (min + x*step, min + y*step, min + z*step); with a finite step, different
\* indices give different coordinates, so every node is there once.
C7_XFastestOrder ==
  /\ pc = "evaluate" => LatticeOrder(PointsOf(points), U32Val(resolution), step)
  /\ evalCalls >= 1 => evalArgs[1].points = points

C7_Witness ==
  /\ pc = "evaluate"
  /\ resolution = ToUInt32(3)
  /\ At(PointsOf(points), 1 + 3 * 2 + 9 * 0) = <<Frac(0, 1), Frac(1, 1), Frac(-1, 1)>>

-----------------------------------------------------------------------------
(* C8 *)

InUnitRange(c) == c.cls = "fin" /\ -c.den <= c.num /\ c.num <= c.den

\* C8: whenever at least one point is generated, the divisor resolution - 1
\* is not zero and is the number of intervals of an axis, index 0 is at -1,
\* index resolution - 1 is at +1, and every coordinate lies in [-1, 1].
C8_GridSpansUnitCube ==
  (pc = "evaluate" /\ points.n >= 1)
    => /\ divisor # ToUInt32(0)
       /\ U32Val(divisor) = points.n - 1
       /\ Coord(0, step) = minBound
       /\ Coord(points.n - 1, step) = maxBound
       /\ \A k \in 0..(points.n - 1) : InUnitRange(Coord(k, step))

-----------------------------------------------------------------------------
(* C9 *)

ViewerTouched == ~ViewerUntouched

C9_State ==
  /\ evalCalls <= 1
  /\ ViewerTouched
       => /\ evalCalls = 1
          /\ ~EvalFailed
          /\ sdfValues.returned
          /\ viewer.init
  /\ sdfValues.returned
       => /\ sdfValues.name = evalArgs[1].name
          /\ sdfValues.points = evalArgs[1].points
          /\ sdfValues.time = evalArgs[1].time
          /\ sdfValues.seed = evalArgs[1].seed
  /\ viewer.grid.registered => viewer.grid.distance = sdfValues
  /\ viewer.shown => viewer.grid.registered

C9_Step ==
  /\ viewer' # viewer
       => UNCHANGED <<evalCalls, evalArgs, sdfValues, points, time, seed, sdfName>>
  /\ evalCalls' # evalCalls => (ViewerUntouched /\ ViewerUntouched')

\* C9: evaluate is called at most once; the viewer is initialized, the grid
\* registered and the window shown only after that call has returned without
\* failure; the vector attached to the grid is the one evaluate returned for
\* the arguments it received; and no step of the viewer changes what evaluate
\* received or returned.
C9_ViewerAfterEvaluate == []C9_State /\ [][C9_Step]_vars

C9_Witness ==
  /\ viewer.shown
  /\ viewer.grid.registered
  /\ viewer.grid.distance = sdfValues
  /\ sdfValues.returned
  /\ evalCalls = 1

-----------------------------------------------------------------------------
(* C10 *)

ReadsInBounds == \A k \in argvReads : 1 <= k /\ k < argc

IndexIncreases == (pc = "parse" /\ pc' = "parse") => i' > i

LastIsValueOption == argc > 1 /\ Arg(argc - 1) \in ValueOptions

RejectedAsUnknown(k) ==
  /\ pc = "done"
  /\ exitCode = 1
  /\ \E j \in 1..Len(out) :
       out[j] = Line("cerr", "Unknown argument: ", Arg(k))

\* C10, as stated: every read of argv[i] has 1 <= i < argc, the loop index
\* strictly increases, and a run whose last argument is a value-taking option
\* ends by rejecting it as an unknown argument with exit status 1.
C10_AsStated ==
  /\ []ReadsInBounds
  /\ [][IndexIncreases]_vars
  /\ []((pc = "done" /\ LastIsValueOption) => RejectedAsUnknown(argc - 1))

\* C10, amended: every read of argv[i] has 1 <= i < argc, the loop index
\* strictly increases in every iteration that goes on, the loop ends, and a
\* value-taking option that the loop reaches as the last argument (no
\* earlier argument ended the run and it was not taken as the value of the
\* option before it) is rejected in that step as an unknown argument with
\* exit status 1, argv[i + 1] not being read.
C10_Step ==
  /\ IndexIncreases
  /\ (InLoop /\ i = argc - 1 /\ Arg(i) \in ValueOptions)
       => /\ pc' = "done"
          /\ exitCode' = 1
          /\ out' = out \o <<Line("cerr", "Unknown argument: ", Arg(i))>> \o printUsage
          /\ argvReads' = argvReads \cup {i}

C10_ParsingSafe ==
  /\ []ReadsInBounds
  /\ [][C10_Step]_vars
  /\ <>(pc # "parse")

C10_Witness ==
  /\ LastIsValueOption
  /\ i = argc - 1
  /\ RejectedAsUnknown(argc - 1)
  /\ sdfName = Sphere
  /\ argvReads = 1..(argc - 1)

====
